---- MODULE Spec2Model ----
(***************************************************************************)
(* Model of the MCP tool-orchestration core of Goated-App:                 *)
(*   MCPService (connect / disconnect / getConnectedServers / getAllTools  *)
(*   / executeTool) and the tool-call records AIService keeps around       *)
(*   executeTool.                                                          *)
(*                                                                         *)
(* JavaScript is single threaded: every action below is one run-to-        *)
(* completion piece of a handler, from one await to the next.  The MCP SDK *)
(* client, the child process and the timers are the environment; what they *)
(* answer is chosen nondeterministically.                                  *)
(***************************************************************************)
EXTENDS Integers, Sequences, FiniteSets, TLC

\* ---------------------------------------------------------------- bounds
MaxConnects == 2      \* connect() invocations in one run
MaxDisconnects == 2   \* disconnect() invocations in one run
MaxCalls == 2         \* executeTool() invocations in one run
MaxOps == 4           \* invocations of any kind in one run
MaxSends == 3         \* chat:send requests in one run

ConnIds == 1..MaxConnects
DiscIds == 1..MaxDisconnects
CallIds == 1..MaxCalls
SendIds == 1..MaxSends

\* ------------------------------------------------------- inputs and values
\* Script paths offered to connect(): two valid scripts, one with a wrong
\* extension, one .py path that is not on disk.
Paths == {"a.py", "b.js", "c.txt", "missing.py"}
\* The same and a script whose extension is written in capitals.
LaunchPaths == Paths \cup {"D.PY"}
\* Values of process.platform.
Platforms == {"linux", "darwin", "win32"}

\* path.extname(p)
ExtName(p) == CASE p = "a.py" -> ".py"
                [] p = "missing.py" -> ".py"
                [] p = "b.js" -> ".js"
                [] p = "D.PY" -> ".PY"
                [] OTHER -> ".txt"

\* String.prototype.toLowerCase on an extension.
ToLowerCase(x) == IF x = ".PY" THEN ".py" ELSE x

\* path.extname(p).toLowerCase()
Ext(p) == ToLowerCase(ExtName(p))

ExistsOnDisk(p) == p \in {"a.py", "b.js", "c.txt", "D.PY"}

\* The tool catalogue the server behind a script answers to listTools.
Catalogue(p) == IF p = "a.py" THEN <<"echo", "search">> ELSE <<"search">>

NoRes == [success |-> FALSE, error |-> "none"]
Ok == [success |-> TRUE, error |-> ""]
Fail(msg) == [success |-> FALSE, error |-> msg]

InvalidTypeMsg == "Invalid server script type. Must be .py or .js file"
NotFoundMsg(p) == CASE p = "missing.py" -> "Server script not found: missing.py"
                    [] p = "a.py" -> "Server script not found: a.py"
                    [] p = "b.js" -> "Server script not found: b.js"
                    [] p = "D.PY" -> "Server script not found: D.PY"
                    [] OTHER -> "Server script not found: c.txt"
ConnTimeoutMsg == "Connection timeout after 30 seconds"
ServerNotFoundMsg == "Server not found"

\* Messages of the errors client.connect() rejects with (spawn failure,
\* handshake rejection): the handler treats them alike.
HandshakeErrors == {"spawn ENOENT"}
ListToolsError == "listTools failed"

\* Tool names a caller asks executeTool for.
ToolNames == {"echo", "search"}

ExecTimeoutMsg == "Tool execution timeout after 60 seconds"
ToolNotFoundMsg(n) == IF n = "echo"
                      THEN "Tool 'echo' not found in any connected server"
                      ELSE "Tool 'search' not found in any connected server"
\* Message of a JSON-RPC error the server answers a tools/call with.
ServerErrorMsg == "server: tool failed"
\* Message the SDK rejects a request with when the transport is gone.
ConnClosedMsg == "Connection closed"

\* One content item of a CallToolResult.  The text a server writes for
\* request r of tool n is particular to that request.
TextItem(n, r) == [type |-> "text", tool |-> n, req |-> r]
NewLine == [type |-> "nl", tool |-> "", req |-> 0]

\* The CallToolResults a server may answer request r of tool n with.
Payloads(n, r) ==
    { [content |-> <<TextItem(n, r)>>, isError |-> FALSE],
      [content |-> <<TextItem(n, r)>>, isError |-> TRUE] }

\* What the SDK client settles the promise of a request with.
NoResp == [kind |-> "none", content |-> <<>>, isError |-> FALSE, msg |-> ""]
ResultResp(p) == [kind |-> "result", content |-> p.content, isError |-> p.isError, msg |-> ""]
ErrorResp(m) == [kind |-> "error", content |-> <<>>, isError |-> FALSE, msg |-> m]
\* A settlement no invocation awaited any more: its content reaches no one.
LateResp == [kind |-> "late", content |-> <<>>, isError |-> FALSE, msg |-> ""]

\* ToolExecutionResult.  kind "text": result is the joined text; kind "raw":
\* result is the CallToolResult object itself.
NoExecRes == [success |-> FALSE, kind |-> "none", body |-> <<>>, isError |-> FALSE,
              error |-> "none"]
ExecFail(m) == [success |-> FALSE, kind |-> "none", body |-> <<>>, isError |-> FALSE,
                error |-> m]
NoRec == [status |-> "none", result |-> NoExecRes]

NoConn == [status |-> "none", tools |-> <<>>, path |-> "", error |-> ""]
\* No StdioClientTransport was constructed.
NoSpawn == [command |-> "", args |-> <<>>]
\* null, where a string or null is held.
NullString == "<null>"

\* ------------------------------------------------- arguments and JSON text
\* JavaScript values an arguments object is built from.  Numbers are kept
\* by their shortest literal; "-0" is negative zero.
Null == [t |-> "null", v |-> <<>>]
True == [t |-> "true", v |-> <<>>]
Undefined == [t |-> "undefined", v |-> <<>>]
NaN == [t |-> "nan", v |-> <<>>]
Num(lit) == [t |-> "num", v |-> <<lit>>]
BigInt(lit) == [t |-> "bigint", v |-> <<lit>>]
Str(s) == [t |-> "str", v |-> <<s>>]
Arr(items) == [t |-> "arr", v |-> items]
Member(key, val) == [key |-> key, val |-> val]
Obj(members) == [t |-> "obj", v |-> members]
\* An object one of whose properties refers back to the object itself.
Cyclic == [t |-> "cyclic", v |-> <<>>]
EmptyArgs == Obj(<<>>)
\* No arguments object: callTool was not called.
NoArgs == [t |-> "none", v |-> <<>>]

\* Arguments objects that are JSON-representable: each is what JSON.parse
\* makes of some JSON text ("-0" is a JSON number and parses to negative zero).
JsonArgs ==
    { EmptyArgs,
      Obj(<<Member("q", Num("-0"))>>),
      Obj(<<Member("q", Str("x"))>>),
      Obj(<<Member("q", Num("1")), Member("r", Null)>>),
      Obj(<<Member("q", Arr(<<Num("1"), Str("x")>>))>>),
      Obj(<<Member("q", Obj(<<Member("r", True)>>))>>) }

\* Arguments objects the structured clone of the IPC channel carries but
\* JSON does not represent.
NonJsonArgs ==
    { Obj(<<Member("q", Undefined)>>),
      Obj(<<Member("q", Arr(<<NaN>>))>>),
      Obj(<<Member("q", BigInt("10"))>>),
      Cyclic }

\* Tokens of a JSON text.
Punct(s) == [k |-> "punct", s |-> s]
Lit(s) == [k |-> "lit", s |-> s]
NumTok(s) == [k |-> "num", s |-> s]
StrTok(s) == [k |-> "str", s |-> s]

\* Number::toString as JSON.stringify uses it: negative zero prints as 0.
NumberToString(lit) == IF lit = "-0" THEN "0" ELSE lit
\* The number a JSON number token denotes.
StringToNumber(s) == s

RECURSIVE Unserializable(_), AnyUnserializable(_)
\* JSON.stringify throws a TypeError on a BigInt and on a circular structure.
Unserializable(v) ==
    CASE v.t \in {"bigint", "cyclic"} -> TRUE
      [] v.t = "arr" -> AnyUnserializable(v.v)
      [] v.t = "obj" -> AnyUnserializable([i \in 1..Len(v.v) |-> v.v[i].val])
      [] OTHER -> FALSE
AnyUnserializable(vs) ==
    IF vs = <<>> THEN FALSE
    ELSE Unserializable(Head(vs)) \/ AnyUnserializable(Tail(vs))

RECURSIVE Serialize(_), SerializeItems(_), SerializeMembers(_, _)
\* JSON.stringify(v) for a v it does not throw on, as the tokens of its text.
Serialize(v) ==
    CASE v.t = "null" -> <<Lit("null")>>
      [] v.t = "true" -> <<Lit("true")>>
      [] v.t = "nan" -> <<Lit("null")>>
      [] v.t = "num" -> <<NumTok(NumberToString(v.v[1]))>>
      [] v.t = "str" -> <<StrTok(v.v[1])>>
      [] v.t = "arr" -> <<Punct("[")>> \o SerializeItems(v.v) \o <<Punct("]")>>
      [] v.t = "obj" -> <<Punct("{")>> \o SerializeMembers(v.v, TRUE) \o <<Punct("}")>>
\* Array elements: undefined is written as null.
SerializeItems(vs) ==
    IF vs = <<>> THEN <<>>
    ELSE (IF Head(vs).t = "undefined" THEN <<Lit("null")>> ELSE Serialize(Head(vs)))
         \o (IF Tail(vs) = <<>> THEN <<>> ELSE <<Punct(",")>> \o SerializeItems(Tail(vs)))
\* A serializer that leaves out the members whose value is null as well.
SerializeMembersOmitNull(ms, first) ==
    IF ms = <<>> THEN <<>>
    ELSE IF Head(ms).val.t \in {"undefined", "null"} THEN SerializeMembers(Tail(ms), first)
    ELSE (IF first THEN <<>> ELSE <<Punct(",")>>)
         \o <<StrTok(Head(ms).key), Punct(":")>> \o Serialize(Head(ms).val)
         \o SerializeMembers(Tail(ms), FALSE)

\* Object members: one whose value is undefined is left out.
SerializeMembers(ms, first) ==
    IF ms = <<>> THEN <<>>
    ELSE IF Head(ms).val.t = "undefined" THEN SerializeMembers(Tail(ms), first)
    ELSE (IF first THEN <<>> ELSE <<Punct(",")>>)
         \o <<StrTok(Head(ms).key), Punct(":")>> \o Serialize(Head(ms).val)
         \o SerializeMembers(Tail(ms), FALSE)

RECURSIVE ParseValue(_), ParseItems(_), ParseMembers(_)
\* JSON.parse, one value read from the front of the tokens: the value and
\* the tokens that follow it.
ParseValue(toks) ==
    LET h == Head(toks) IN
    CASE h.k = "lit" -> [val |-> IF h.s = "null" THEN Null ELSE True, rest |-> Tail(toks)]
      [] h.k = "num" -> [val |-> Num(StringToNumber(h.s)), rest |-> Tail(toks)]
      [] h.k = "str" -> [val |-> Str(h.s), rest |-> Tail(toks)]
      [] h = Punct("[") ->
            LET r == ParseItems(Tail(toks)) IN [val |-> Arr(r.val), rest |-> r.rest]
      [] h = Punct("{") ->
            LET r == ParseMembers(Tail(toks)) IN [val |-> Obj(r.val), rest |-> r.rest]
ParseItems(toks) ==
    IF Head(toks) = Punct("]") THEN [val |-> <<>>, rest |-> Tail(toks)]
    ELSE LET r == ParseValue(toks) IN
         IF Head(r.rest) = Punct(",")
         THEN LET more == ParseItems(Tail(r.rest)) IN
              [val |-> <<r.val>> \o more.val, rest |-> more.rest]
         ELSE [val |-> <<r.val>>, rest |-> Tail(r.rest)]
ParseMembers(toks) ==
    IF Head(toks) = Punct("}") THEN [val |-> <<>>, rest |-> Tail(toks)]
    ELSE LET r == ParseValue(Tail(Tail(toks)))
             m == Member(Head(toks).s, r.val) IN
         IF Head(r.rest) = Punct(",")
         THEN LET more == ParseMembers(Tail(r.rest)) IN
              [val |-> <<m>> \o more.val, rest |-> more.rest]
         ELSE [val |-> <<m>>, rest |-> Tail(r.rest)]

\* JSON.parse(text)
Parse(toks) == ParseValue(toks).val

\* The JSON texts a backend writes as tc.function.arguments: the text of
\* each JSON-representable arguments object, and one with the number -0.
BackendTexts ==
    { Serialize(v) : v \in JsonArgs }
        \cup { <<Punct("{"), StrTok("q"), Punct(":"), NumTok("-0"), Punct("}")>> }

VARIABLES
    servers,     \* keys of the Map `servers`, in insertion order
    conn,        \* the MCPServerConnection object created for each id
    nconn,       \* number of connect() invocations so far; the uuid of the n-th is n
    cpath,       \* the scriptPath argument of each connect() invocation
    cpc,         \* where each connect() invocation stands
    cres,        \* what each connect() invocation returned
    ctimer,      \* the connection-timeout timer of each invocation
    transport,   \* the child process / stdio transport of each id
    closeCalled, \* the ids whose client.close() has been called
    ndisc,       \* number of disconnect() invocations so far
    dpc,         \* where each disconnect() invocation stands (closing, or the return it took)
    dsid,        \* its serverId argument
    dres,        \* what it returned
    ncall,       \* number of executeTool() invocations so far
    epc,         \* where each executeTool() invocation stands
    ename,       \* its toolName argument
    etarget,     \* the id of targetServer, 0 when none was found
    esnap,       \* the connected servers exposing toolName, in Map order, when the owner was looked up
    esupplied,   \* the arguments object the caller of each invocation supplied
    eargs,       \* the `arguments` each invocation handed to client.callTool
    ecalls,      \* the number of client.callTool requests each invocation has issued
    eresp,       \* what the server answered to the request of each invocation
    eres,        \* what each invocation returned
    etimer,      \* the execution-timeout timer of each invocation
    chat,        \* the chat()/chatStream() invocation: mode and position
    chatTools,   \* the `tools` object handed to the model: per name, the server of the MCPTool its entry was built from, 0 for no entry
    wpc,         \* where the AIService execute wrapper around each invocation stands
    rec,         \* the ToolCallInfo pushed for each invocation made by the model
    rlog,        \* the statuses assigned to each ToolCallInfo, in order, its creation first
    platform,    \* process.platform of the main process
    spawned,     \* command and args of the StdioClientTransport created for each id
    hook,        \* state of the useMCP hook and of its connect() in progress
    modal,       \* state of the ToolConnectionModal
    history,     \* conversationHistory of the main process: role and the request each entry is of
    spc          \* where each chat:send request (Python backend path) stands

vars == <<servers, conn, nconn, cpc, cres, ctimer, transport, closeCalled, ndisc, dpc, dsid, dres,
          ncall, epc, ename, etarget, esnap, esupplied, eargs, ecalls, eresp, eres, etimer,
          chat, chatTools, wpc, rec, rlog, cpath, platform, spawned, hook, modal,
          history, spc>>

execVars == <<ncall, epc, ename, etarget, esnap, esupplied, eargs, ecalls, eresp, eres, etimer>>
chatVars == <<chat, chatTools, wpc, rec, rlog>>

connVars == <<nconn, cpath, cpc, cres, ctimer>>
sendVars == <<history, spc>>
\* The main process outside MCPService's table and AIService: the launches
\* made and the chat:send handler.
procVars == <<platform, spawned, sendVars>>
uiVars == <<hook, modal>>
discVars == <<ndisc, dpc, dsid, dres>>

\* ------------------------------------------------------------ pure helpers
RECURSIVE Remove(_, _)
\* Map.delete: the key leaves the iteration order, the others keep theirs.
Remove(s, id) ==
    IF s = <<>> THEN <<>>
    ELSE IF Head(s) = id THEN Remove(Tail(s), id)
         ELSE <<Head(s)>> \o Remove(Tail(s), id)

InTable(id) == \E i \in 1..Len(servers) : servers[i] = id

\* validatePath without its fs.existsSync test.
validatePathExtensionOnly(p) ==
    IF Ext(p) # ".py" /\ Ext(p) # ".js" THEN Fail(InvalidTypeMsg)
    ELSE Ok

validatePath(p) ==
    IF Ext(p) # ".py" /\ Ext(p) # ".js" THEN Fail(InvalidTypeMsg)
    ELSE IF ~ExistsOnDisk(p) THEN Fail(NotFoundMsg(p))
    ELSE Ok

\* tools.map(tool => ({name, ..., serverId}))
RECURSIVE TagTools(_, _)
TagTools(names, id) ==
    IF names = <<>> THEN <<>>
    ELSE <<[name |-> Head(names), serverId |-> id]>> \o TagTools(Tail(names), id)

RECURSIVE ConnectedIn(_)
\* Array.from(servers.values()).filter(s => s.status === 'connected')
ConnectedIn(s) ==
    IF s = <<>> THEN <<>>
    ELSE IF conn[Head(s)].status = "connected"
         THEN <<Head(s)>> \o ConnectedIn(Tail(s))
         ELSE ConnectedIn(Tail(s))

getConnectedServers == ConnectedIn(servers)

RECURSIVE ToolsInFirst(_)
\* getAllTools returning from inside the loop, after the first connected server.
ToolsInFirst(s) ==
    IF s = <<>> THEN <<>>
    ELSE IF conn[Head(s)].status = "connected"
         THEN conn[Head(s)].tools
         ELSE ToolsInFirst(Tail(s))

RECURSIVE ToolsIn(_)
\* The loop of getAllTools over servers.values().
ToolsIn(s) ==
    IF s = <<>> THEN <<>>
    ELSE IF conn[Head(s)].status = "connected"
         THEN conn[Head(s)].tools \o ToolsIn(Tail(s))
         ELSE ToolsIn(Tail(s))

getAllTools == ToolsIn(servers)

\* ------------------------------------------------------------------- Init
\* The state after construction, in a main process whose process.platform is plat.
InitOn(plat) ==
    /\ servers = <<>>
    /\ conn = [i \in ConnIds |-> NoConn]
    /\ nconn = 0
    /\ cpath = [i \in ConnIds |-> ""]
    /\ cpc = [i \in ConnIds |-> "none"]
    /\ cres = [i \in ConnIds |-> NoRes]
    /\ ctimer = [i \in ConnIds |-> "none"]
    /\ transport = [i \in ConnIds |-> "none"]
    /\ closeCalled = {}
    /\ ndisc = 0
    /\ dpc = [d \in DiscIds |-> "none"]
    /\ dsid = [d \in DiscIds |-> 0]
    /\ dres = [d \in DiscIds |-> NoRes]
    /\ ncall = 0
    /\ epc = [e \in CallIds |-> "none"]
    /\ ename = [e \in CallIds |-> ""]
    /\ etarget = [e \in CallIds |-> 0]
    /\ esnap = [e \in CallIds |-> <<>>]
    /\ esupplied = [e \in CallIds |-> NoArgs]
    /\ eargs = [e \in CallIds |-> NoArgs]
    /\ ecalls = [e \in CallIds |-> 0]
    /\ eresp = [e \in CallIds |-> NoResp]
    /\ eres = [e \in CallIds |-> NoExecRes]
    /\ etimer = [e \in CallIds |-> "none"]
    /\ chat = [mode |-> "none", pc |-> "idle"]
    /\ chatTools = [n \in ToolNames |-> 0]
    /\ wpc = [e \in CallIds |-> "none"]
    /\ rec = [e \in CallIds |-> NoRec]
    /\ rlog = [e \in CallIds |-> <<>>]
    /\ platform = plat
    /\ spawned = [i \in ConnIds |-> NoSpawn]
    /\ hook = [pc |-> "idle", id |-> 0, isConnecting |-> FALSE, error |-> NullString,
               connectedServers |-> <<>>, tools |-> <<>>]
    /\ modal = [serverPath |-> "", localError |-> NullString]
    /\ history = <<>>
    /\ spc = [r \in SendIds |-> "none"]

\* Nothing but the launch command depends on the platform.
Init == InitOn("linux")

\* The same on any platform.
InitLaunch == \E plat \in Platforms : InitOn(plat)

\* Invocations made so far, of any kind.
OpsUsed == nconn + ndisc + ncall + (IF chat.pc = "idle" THEN 0 ELSE 1)

\* ---------------------------------------------------------------- connect
\* getCommand comparing the extension as it is written.
getCommandCaseSensitive(p) ==
    IF ExtName(p) = ".py"
    THEN (IF platform = "win32" THEN "python" ELSE "python3")
    ELSE "node"

\* getCommand(p)
getCommand(p) ==
    IF Ext(p) = ".py"
    THEN (IF platform = "win32" THEN "python" ELSE "python3")
    ELSE "node"

\* connect(p) up to its first await, or its early return when validatePath
\* rejects the path.  With a valid path: uuid made, transport constructed
\* with the command and the script path, entry inserted in 'connecting',
\* client.connect() started and the timer armed.
BeginConnect(p) ==
    /\ nconn < MaxConnects
    /\ OpsUsed < MaxOps
    /\ LET id == nconn + 1 IN
        /\ nconn' = id
        /\ cpath' = [cpath EXCEPT ![id] = p]
        /\ IF ~validatePath(p).success
           THEN /\ cpc' = [cpc EXCEPT ![id] = "done"]
                /\ cres' = [cres EXCEPT ![id] = validatePath(p)]
                /\ UNCHANGED <<servers, conn, ctimer, transport, spawned>>
           ELSE /\ spawned' = [spawned EXCEPT ![id] =
                                 [command |-> getCommand(p), args |-> <<p>>]]
                /\ conn' = [conn EXCEPT ![id] =
                              [status |-> "connecting", tools |-> <<>>, path |-> p, error |-> ""]]
                /\ servers' = Append(servers, id)
                /\ cpc' = [cpc EXCEPT ![id] = "handshaking"]
                /\ ctimer' = [ctimer EXCEPT ![id] = "armed"]
                /\ transport' = [transport EXCEPT ![id] = "live"]
                /\ cres' = cres
    /\ UNCHANGED <<closeCalled, discVars, execVars, chatVars, platform, sendVars>>

\* connect(p) with a path validatePath rejects: returns before a uuid is made.
ConnectInvalid(p) ==
    /\ ~validatePath(p).success
    /\ BeginConnect(p)
    /\ UNCHANGED uiVars

\* connect(p), valid path: the handler now awaits the race.
ConnectStart(p) ==
    /\ validatePath(p).success
    /\ BeginConnect(p)
    /\ UNCHANGED uiVars

\* connectPromise resolved first: the handler goes on to client.listTools().
HandshakeOk(id) ==
    /\ cpc[id] = "handshaking"
    /\ transport[id] = "live"
    /\ cpc' = [cpc EXCEPT ![id] = "listing"]
    /\ UNCHANGED <<servers, conn, nconn, cpath, cres, ctimer, transport, closeCalled, discVars, execVars, chatVars, procVars, uiVars>>

\* The catch block up to `await server.client.close()`.
CatchConnect(id, msg) ==
    /\ IF InTable(id)
       THEN /\ conn' = [conn EXCEPT ![id].status = "error", ![id].error = msg]
            /\ cpc' = [cpc EXCEPT ![id] = "closing"]
            /\ cres' = cres
            /\ closeCalled' = closeCalled \cup {id}
       ELSE /\ conn' = conn
            /\ cpc' = [cpc EXCEPT ![id] = "done"]
            /\ cres' = [cres EXCEPT ![id] = Fail(msg)]
            /\ closeCalled' = closeCalled
    /\ UNCHANGED <<servers, nconn, cpath>>

\* connectPromise rejected first (spawn failure, handshake rejection).
HandshakeFail(id, msg) ==
    /\ cpc[id] = "handshaking"
    /\ CatchConnect(id, msg)
    /\ transport' = [transport EXCEPT ![id] = "dead"]
    /\ UNCHANGED <<ctimer, discVars, execVars, chatVars, procVars, uiVars>>

\* connect awaiting connectPromise alone, without the race: the timer's
\* rejection reaches no one.
ConnTimerUnraced(id) ==
    /\ ctimer[id] = "armed"
    /\ cpc[id] = "handshaking"
    /\ ctimer' = [ctimer EXCEPT ![id] = "fired"]
    /\ UNCHANGED <<servers, conn, nconn, cpath, cpc, cres, transport, closeCalled, discVars,
                   execVars, chatVars, procVars, uiVars>>

\* A timeoutPromise that resolves where it should reject: the race is won
\* by the timer and the handler goes on to client.listTools().
ConnTimerFireProceeds(id) ==
    /\ ctimer[id] = "armed"
    /\ cpc[id] = "handshaking"
    /\ ctimer' = [ctimer EXCEPT ![id] = "fired"]
    /\ cpc' = [cpc EXCEPT ![id] = "listing"]
    /\ UNCHANGED <<servers, conn, nconn, cpath, cres, transport, closeCalled, discVars,
                   execVars, chatVars, procVars, uiVars>>

\* The 30 s timer fires and rejects timeoutPromise while the handler still
\* awaits the race: the handler enters its catch block.
ConnTimerFire(id) ==
    /\ ctimer[id] = "armed"
    /\ cpc[id] = "handshaking"
    /\ ctimer' = [ctimer EXCEPT ![id] = "fired"]
    /\ CatchConnect(id, ConnTimeoutMsg)
    /\ UNCHANGED <<transport, discVars, execVars, chatVars, procVars, uiVars>>

\* A timer callback that marks the server failed whenever it fires.
ConnTimerStaleMarksError(id) ==
    /\ ctimer[id] = "armed"
    /\ cpc[id] # "handshaking"
    /\ ctimer' = [ctimer EXCEPT ![id] = "fired"]
    /\ conn' = [conn EXCEPT ![id].status = "error", ![id].error = ConnTimeoutMsg]
    /\ UNCHANGED <<servers, nconn, cpath, cpc, cres, transport, closeCalled, discVars, execVars, chatVars, procVars, uiVars>>

\* The 30 s timer fires after the race was settled (timers are never
\* cleared): the rejection of timeoutPromise has no one awaiting it.
ConnTimerStale(id) ==
    /\ ctimer[id] = "armed"
    /\ cpc[id] # "handshaking"
    /\ ctimer' = [ctimer EXCEPT ![id] = "fired"]
    /\ UNCHANGED <<servers, conn, nconn, cpath, cpc, cres, transport, closeCalled, discVars, execVars, chatVars, procVars, uiVars>>

\* listTools answered: tools stored, status 'connected', connect returns.
ListToolsOk(id) ==
    /\ cpc[id] = "listing"
    /\ transport[id] = "live"
    /\ conn' = [conn EXCEPT ![id].tools = TagTools(Catalogue(conn[id].path), id),
                            ![id].status = "connected"]
    /\ cpc' = [cpc EXCEPT ![id] = "done"]
    /\ cres' = [cres EXCEPT ![id] = Ok]
    /\ UNCHANGED <<servers, nconn, cpath, ctimer, transport, closeCalled, discVars, execVars, chatVars, procVars, uiVars>>

\* listTools rejected.
ListToolsFail(id) ==
    /\ cpc[id] = "listing"
    /\ CatchConnect(id, ListToolsError)
    /\ UNCHANGED <<ctimer, transport, discVars, execVars, chatVars, procVars, uiVars>>

\* The catch block of connect without its servers.delete().
ConnectCleanupLeak(id) ==
    /\ cpc[id] = "closing"
    /\ transport' = [transport EXCEPT ![id] = "closed"]
    /\ cpc' = [cpc EXCEPT ![id] = "done"]
    /\ cres' = [cres EXCEPT ![id] = Fail(conn[id].error)]
    /\ UNCHANGED <<servers, conn, nconn, cpath, ctimer, closeCalled, discVars, execVars, chatVars, procVars, uiVars>>

\* The catch block of connect emptying the whole Map where it deletes one key.
ConnectCleanupClears(id) ==
    /\ cpc[id] = "closing"
    /\ transport' = [transport EXCEPT ![id] = "closed"]
    /\ servers' = <<>>
    /\ cpc' = [cpc EXCEPT ![id] = "done"]
    /\ cres' = [cres EXCEPT ![id] = Fail(conn[id].error)]
    /\ UNCHANGED <<conn, nconn, cpath, ctimer, closeCalled, discVars, execVars, chatVars, procVars, uiVars>>

\* close() in the catch block resolved: entry deleted, failure returned.
ConnectCleanup(id) ==
    /\ cpc[id] = "closing"
    /\ transport' = [transport EXCEPT ![id] = "closed"]
    /\ servers' = Remove(servers, id)
    /\ cpc' = [cpc EXCEPT ![id] = "done"]
    /\ cres' = [cres EXCEPT ![id] = Fail(conn[id].error)]
    /\ UNCHANGED <<conn, nconn, cpath, ctimer, closeCalled, discVars, execVars, chatVars, procVars, uiVars>>

\* close() in the catch block threw: the error is ignored, the rest is the same.
ConnectCleanupCloseThrows(id) ==
    /\ cpc[id] = "closing"
    /\ servers' = Remove(servers, id)
    /\ cpc' = [cpc EXCEPT ![id] = "done"]
    /\ cres' = [cres EXCEPT ![id] = Fail(conn[id].error)]
    /\ UNCHANGED <<conn, nconn, cpath, ctimer, transport, closeCalled, discVars, execVars, chatVars, procVars, uiVars>>

\* ------------------------------------------------------------- disconnect
\* Ids a caller can name: those connect() returned or listServers showed.
Disclosed(id) == cres[id].success

\* disconnect(id), entry missing.
DisconnectNotFound(id) ==
    /\ ndisc < MaxDisconnects
    /\ OpsUsed < MaxOps
    /\ Disclosed(id)
    /\ ~InTable(id)
    /\ ndisc' = ndisc + 1
    /\ dpc' = [dpc EXCEPT ![ndisc + 1] = "ret_notfound"]
    /\ dsid' = [dsid EXCEPT ![ndisc + 1] = id]
    /\ dres' = [dres EXCEPT ![ndisc + 1] = Fail(ServerNotFoundMsg)]
    /\ UNCHANGED <<servers, conn, connVars, transport, closeCalled, execVars, chatVars, procVars, uiVars>>

\* disconnect(id), entry present: client.close() is called and awaited.
DisconnectStart(id) ==
    /\ ndisc < MaxDisconnects
    /\ OpsUsed < MaxOps
    /\ Disclosed(id)
    /\ InTable(id)
    /\ ndisc' = ndisc + 1
    /\ dpc' = [dpc EXCEPT ![ndisc + 1] = "closing"]
    /\ dsid' = [dsid EXCEPT ![ndisc + 1] = id]
    /\ closeCalled' = closeCalled \cup {id}
    /\ UNCHANGED <<servers, conn, connVars, transport, dres, execVars, chatVars, procVars, uiVars>>

\* disconnect emptying the whole Map where it deletes one key.
DisconnectClosedClears(d) ==
    /\ dpc[d] = "closing"
    /\ transport' = [transport EXCEPT ![dsid[d]] = "closed"]
    /\ conn' = [conn EXCEPT ![dsid[d]].status = "disconnected"]
    /\ servers' = <<>>
    /\ dpc' = [dpc EXCEPT ![d] = "ret_closed"]
    /\ dres' = [dres EXCEPT ![d] = Ok]
    /\ UNCHANGED <<connVars, closeCalled, ndisc, dsid, execVars, chatVars, procVars, uiVars>>

\* close() resolved.
DisconnectClosed(d) ==
    /\ dpc[d] = "closing"
    /\ transport' = [transport EXCEPT ![dsid[d]] = "closed"]
    /\ conn' = [conn EXCEPT ![dsid[d]].status = "disconnected"]
    /\ servers' = Remove(servers, dsid[d])
    /\ dpc' = [dpc EXCEPT ![d] = "ret_closed"]
    /\ dres' = [dres EXCEPT ![d] = Ok]
    /\ UNCHANGED <<connVars, closeCalled, ndisc, dsid, execVars, chatVars, procVars, uiVars>>

\* The catch block of disconnect reporting the close error instead of
\* force-removing the entry.
DisconnectCloseRethrows(d) ==
    /\ dpc[d] = "closing"
    /\ dpc' = [dpc EXCEPT ![d] = "ret_forced"]
    /\ dres' = [dres EXCEPT ![d] = Fail("close failed")]
    /\ UNCHANGED <<servers, conn, connVars, transport, closeCalled, ndisc, dsid, execVars, chatVars, procVars, uiVars>>

\* close() threw: logged, entry force-removed, success returned.
DisconnectCloseThrows(d) ==
    /\ dpc[d] = "closing"
    /\ servers' = Remove(servers, dsid[d])
    /\ dpc' = [dpc EXCEPT ![d] = "ret_forced"]
    /\ dres' = [dres EXCEPT ![d] = Ok]
    /\ UNCHANGED <<conn, connVars, transport, closeCalled, ndisc, dsid, execVars, chatVars, procVars, uiVars>>

\* ------------------------------------------------------------ executeTool
HasTool(id, n) == \E i \in 1..Len(conn[id].tools) : conn[id].tools[i].name = n

RECURSIVE Exposing(_, _)
\* The entries the owner lookup loop can stop at: 'connected' and having a
\* tool of that name, in Map order.
Exposing(s, n) ==
    IF s = <<>> THEN <<>>
    ELSE IF conn[Head(s)].status = "connected" /\ HasTool(Head(s), n)
         THEN <<Head(s)>> \o Exposing(Tail(s), n)
         ELSE Exposing(Tail(s), n)

RECURSIVE FindOwnerAnyTool(_, _)
\* The owner lookup without its tools.some(...) test.
FindOwnerAnyTool(s, n) ==
    IF s = <<>> THEN 0
    ELSE IF conn[Head(s)].status = "connected"
         THEN Head(s)
         ELSE FindOwnerAnyTool(Tail(s), n)

RECURSIVE FindOwnerLast(_, _)
\* The owner lookup loop without its break: the last match stays.
FindOwnerLast(s, n) ==
    IF s = <<>> THEN 0
    ELSE LET later == FindOwnerLast(Tail(s), n) IN
         IF later # 0 THEN later
         ELSE IF conn[Head(s)].status = "connected" /\ HasTool(Head(s), n)
              THEN Head(s)
              ELSE 0

RECURSIVE FindOwner(_, _)
\* The owner lookup loop: the first entry, in Map order, that is 'connected'
\* and has a tool of that name; 0 when the loop ends without one.
FindOwner(s, n) ==
    IF s = <<>> THEN 0
    ELSE IF conn[Head(s)].status = "connected" /\ HasTool(Head(s), n)
         THEN Head(s)
         ELSE FindOwner(Tail(s), n)

RECURSIVE TextParts(_)
\* content.filter(c => c.type === 'text' && c.text)
TextParts(c) ==
    IF c = <<>> THEN <<>>
    ELSE IF Head(c).type = "text" THEN <<Head(c)>> \o TextParts(Tail(c))
         ELSE TextParts(Tail(c))

RECURSIVE Join(_)
\* textParts.join('\n')
Join(t) ==
    IF Len(t) <= 1 THEN t
    ELSE <<Head(t), NewLine>> \o Join(Tail(t))

\* What executeTool returns for a settled request: lines 276-303.
Outcome(resp) ==
    IF resp.kind = "error" THEN ExecFail(resp.msg)
    ELSE IF TextParts(resp.content) # <<>>
         THEN [success |-> TRUE, kind |-> "text", body |-> Join(TextParts(resp.content)),
               isError |-> FALSE, error |-> ""]
         ELSE [success |-> TRUE, kind |-> "raw", body |-> resp.content,
               isError |-> resp.isError, error |-> ""]

\* Responses handed out in arrival order: every invocation waits for the
\* oldest request still unanswered on its server.
oldestPending(e) ==
    CHOOSE r \in CallIds :
        /\ etarget[r] = etarget[e]
        /\ eresp[r].kind = "none"
        /\ \A q \in CallIds : (etarget[q] = etarget[e] /\ eresp[q].kind = "none") => r <= q

\* The request whose promise invocation e awaits in Promise.race: its own.
executePromise(e) == e

\* An owner lookup that takes turns among the servers exposing the tool.
BeginExecuteRoundRobin(e, n, a) ==
    LET cands == Exposing(servers, n)
        target == IF cands = <<>> THEN 0 ELSE cands[((e - 1) % Len(cands)) + 1] IN
    /\ ncall' = e
    /\ ename' = [ename EXCEPT ![e] = n]
    /\ etarget' = [etarget EXCEPT ![e] = target]
    /\ esnap' = [esnap EXCEPT ![e] = cands]
    /\ IF target = 0
       THEN /\ epc' = [epc EXCEPT ![e] = "done"]
            /\ eres' = [eres EXCEPT ![e] = ExecFail(ToolNotFoundMsg(n))]
            /\ etimer' = etimer
            /\ eargs' = eargs
            /\ ecalls' = ecalls
       ELSE IF Unserializable(a)
       THEN /\ epc' = [epc EXCEPT ![e] = "threw"]
            /\ eres' = eres
            /\ etimer' = etimer
            /\ eargs' = eargs
            /\ ecalls' = ecalls
       ELSE /\ epc' = [epc EXCEPT ![e] = "awaiting"]
            /\ eres' = eres
            /\ etimer' = [etimer EXCEPT ![e] = "armed"]
            /\ eargs' = [eargs EXCEPT ![e] = a]
            /\ ecalls' = [ecalls EXCEPT ![e] = @ + 1]
    /\ eresp' = eresp

\* The body of executeTool(n, a) up to its first await: the owner lookup
\* with its early return, the log line that runs JSON.stringify(args)
\* outside the try block, and the call of client.callTool.
BeginExecute(e, n, a) ==
    LET target == FindOwner(servers, n) IN
    /\ ncall' = e
    /\ ename' = [ename EXCEPT ![e] = n]
    /\ etarget' = [etarget EXCEPT ![e] = target]
    /\ esnap' = [esnap EXCEPT ![e] = Exposing(servers, n)]
    /\ IF target = 0
       THEN /\ epc' = [epc EXCEPT ![e] = "done"]
            /\ eres' = [eres EXCEPT ![e] = ExecFail(ToolNotFoundMsg(n))]
            /\ etimer' = etimer
            /\ eargs' = eargs
            /\ ecalls' = ecalls
       ELSE IF Unserializable(a)
       THEN /\ epc' = [epc EXCEPT ![e] = "threw"]
            /\ eres' = eres
            /\ etimer' = etimer
            /\ eargs' = eargs
            /\ ecalls' = ecalls
       ELSE /\ epc' = [epc EXCEPT ![e] = "awaiting"]
            /\ eres' = eres
            /\ etimer' = [etimer EXCEPT ![e] = "armed"]
            /\ eargs' = [eargs EXCEPT ![e] = a]
            /\ ecalls' = [ecalls EXCEPT ![e] = @ + 1]
    /\ eresp' = eresp

\* executeTool(n, a) called over IPC (mcp:executeTool): the structured clone
\* of the channel hands the handler the arguments object as it was supplied.
ExecuteTool(n, a) ==
    /\ ncall < MaxCalls
    /\ OpsUsed < MaxOps
    /\ BeginExecute(ncall + 1, n, a)
    /\ esupplied' = [esupplied EXCEPT ![ncall + 1] = a]
    /\ UNCHANGED <<servers, conn, connVars, transport, closeCalled, discVars, chatVars, procVars, uiVars>>

\* One round of the tool loop of chat:send (Python backend): the backend
\* supplies the arguments of a tool call as the JSON text
\* tc.function.arguments; the handler parses the text and calls executeTool.
BackendToolCall(n, text) ==
    /\ ncall < MaxCalls
    /\ OpsUsed < MaxOps
    /\ BeginExecute(ncall + 1, n, Parse(text))
    /\ esupplied' = [esupplied EXCEPT ![ncall + 1] = Parse(text)]
    /\ UNCHANGED <<servers, conn, connVars, transport, closeCalled, discVars, chatVars, procVars, uiVars>>

\* client.callTool({name, arguments: args}) of invocation e: the SDK writes
\* the request as one line of JSON on the server's stdin and the server
\* parses the line; these are the arguments its tool handler is called with.
CallToolArguments(e) == Parse(Serialize(eargs[e]))

\* The SDK client settles request r: with the server's CallToolResult or
\* JSON-RPC error while the transport is up, with a connection error once
\* it is gone.  Every invocation awaiting that request goes on and returns.
Responses(r) ==
    IF eargs[r] = NoArgs THEN {}
    ELSE IF transport[etarget[r]] = "live"
    THEN { ResultResp(p) : p \in Payloads(ename[r], r) } \cup { ErrorResp(ServerErrorMsg) }
    ELSE { ErrorResp(ConnClosedMsg) }

\* The request's settlement written into the invocation's result whether or
\* not the invocation still awaits it.
RequestSettlesOverwrites(r, resp) ==
    /\ eargs[r] # NoArgs
    /\ eresp[r].kind = "none"
    /\ eresp' = [eresp EXCEPT ![r] = resp]
    /\ epc' = [epc EXCEPT ![r] = "done"]
    /\ eres' = [eres EXCEPT ![r] = Outcome(resp)]
    /\ UNCHANGED <<servers, conn, connVars, transport, closeCalled, discVars, chatVars,
                   ncall, ename, etarget, esnap, esupplied, eargs, ecalls, etimer, procVars, uiVars>>

RequestSettles(r, resp) ==
    /\ eargs[r] # NoArgs
    /\ eresp[r].kind = "none"
    /\ eresp' = [eresp EXCEPT ![r] =
                   IF \E e \in CallIds : epc[e] = "awaiting" /\ executePromise(e) = r
                   THEN resp ELSE LateResp]
    /\ epc' = [e \in CallIds |->
                 IF epc[e] = "awaiting" /\ executePromise(e) = r THEN "done" ELSE epc[e]]
    /\ eres' = [e \in CallIds |->
                 IF epc[e] = "awaiting" /\ executePromise(e) = r THEN Outcome(resp)
                 ELSE eres[e]]
    /\ UNCHANGED <<servers, conn, connVars, transport, closeCalled, discVars, chatVars,
                   ncall, ename, etarget, esnap, esupplied, eargs, ecalls, etimer, procVars, uiVars>>

\* executeTool awaiting executePromise alone, without the race: the timer's
\* rejection reaches no one.
ExecTimerUnraced(e) ==
    /\ etimer[e] = "armed"
    /\ epc[e] = "awaiting"
    /\ etimer' = [etimer EXCEPT ![e] = "fired"]
    /\ UNCHANGED <<servers, conn, connVars, transport, closeCalled, discVars, chatVars,
                   ncall, epc, ename, etarget, esnap, esupplied, eargs, ecalls, eresp, eres, procVars, uiVars>>

\* A timeout handled as a failure of the connection: the server is marked
\* 'error' along with the invocation's own timeout.
ExecTimerFireMarksServer(e) ==
    /\ etimer[e] = "armed"
    /\ epc[e] = "awaiting"
    /\ etimer' = [etimer EXCEPT ![e] = "fired"]
    /\ epc' = [epc EXCEPT ![e] = "done"]
    /\ eres' = [eres EXCEPT ![e] = ExecFail(ExecTimeoutMsg)]
    /\ conn' = [conn EXCEPT ![etarget[e]].status = "error"]
    /\ UNCHANGED <<servers, connVars, transport, closeCalled, discVars, chatVars,
                   ncall, ename, etarget, esnap, esupplied, eargs, ecalls, eresp, procVars, uiVars>>

\* A timeout answered by issuing the request again under a new timer.
ExecTimerFireRetries(e) ==
    /\ etimer[e] = "armed"
    /\ epc[e] = "awaiting"
    /\ ecalls' = [ecalls EXCEPT ![e] = @ + 1]
    /\ UNCHANGED <<servers, conn, connVars, transport, closeCalled, discVars, chatVars,
                   ncall, epc, ename, etarget, esnap, esupplied, eargs, eresp, eres, etimer,
                   procVars, uiVars>>

\* The 60 s timer fires while the invocation still awaits the race: the
\* invocation returns the timeout error.
ExecTimerFire(e) ==
    /\ etimer[e] = "armed"
    /\ epc[e] = "awaiting"
    /\ etimer' = [etimer EXCEPT ![e] = "fired"]
    /\ epc' = [epc EXCEPT ![e] = "done"]
    /\ eres' = [eres EXCEPT ![e] = ExecFail(ExecTimeoutMsg)]
    /\ UNCHANGED <<servers, conn, connVars, transport, closeCalled, discVars, chatVars,
                   ncall, ename, etarget, esnap, esupplied, eargs, ecalls, eresp, procVars, uiVars>>

\* The 60 s timer fires after the invocation returned.
ExecTimerStale(e) ==
    /\ etimer[e] = "armed"
    /\ epc[e] # "awaiting"
    /\ etimer' = [etimer EXCEPT ![e] = "fired"]
    /\ UNCHANGED <<servers, conn, connVars, transport, closeCalled, discVars, chatVars,
                   ncall, epc, ename, etarget, esnap, esupplied, eargs, ecalls, eresp, eres, procVars, uiVars>>

\* -------------------------------------------------- AIService chat and records
\* convertMCPToolsToAITools(mcpTools): `tools[mcpTool.name] = tool({...})`
\* for each tool in array order, so of several tools of one name the last
\* one is the entry that stays.
convertMCPToolsToAITools(mcpTools) ==
    [n \in ToolNames |->
        LET at == {i \in 1..Len(mcpTools) : mcpTools[i].name = n} IN
        IF at = {} THEN 0
        ELSE mcpTools[CHOOSE i \in at : \A j \in at : j <= i].serverId]

\* What chatStream has sent on the stream channel about invocation e, in
\* order: onToolCall follows the push of the pending record, onToolResult
\* follows every later assignment of its status (in the wrapper and in the
\* catch block of chatStream); chat() has no callbacks.
Notifications(e) ==
    IF chat.mode # "stream" THEN <<>>
    ELSE [i \in 1..Len(rlog[e]) |->
            IF rlog[e][i] = "pending" THEN "tool-call" ELSE "tool-result"]

\* chat() / chatStream() up to the await of generateText / the text stream.
ChatStart(mode) ==
    /\ chat.pc = "idle"
    /\ OpsUsed < MaxOps
    /\ chat' = [mode |-> mode, pc |-> "running"]
    /\ chatTools' = convertMCPToolsToAITools(getAllTools)
    /\ UNCHANGED <<servers, conn, connVars, transport, closeCalled, discVars, execVars, wpc, rec, rlog, procVars, uiVars>>

\* The model calls tool n: the execute wrapper pushes a pending record and
\* calls executeTool.
ToolExecute(n) ==
    /\ chat.pc = "running"
    /\ chatTools[n] # 0
    /\ ncall < MaxCalls
    /\ OpsUsed < MaxOps
    /\ BeginExecute(ncall + 1, n, EmptyArgs)
    /\ esupplied' = [esupplied EXCEPT ![ncall + 1] = EmptyArgs]
    /\ wpc' = [wpc EXCEPT ![ncall + 1] = "awaiting"]
    /\ rec' = [rec EXCEPT ![ncall + 1] = [status |-> "pending", result |-> NoExecRes]]
    /\ rlog' = [rlog EXCEPT ![ncall + 1] = <<"pending">>]
    /\ UNCHANGED <<servers, conn, connVars, transport, closeCalled, discVars, chat, chatTools, procVars, uiVars>>

\* The wrapper goes on after `await mcpService.executeTool(...)`.  On
\* success it assigns result and status and returns.  On failure it assigns
\* them, throws, and its own catch block assigns them again (in
\* chatStream, onToolResult is called after each assignment) and rethrows.
ToolSettle(e) ==
    /\ wpc[e] = "awaiting"
    /\ epc[e] = "done"
    /\ wpc' = [wpc EXCEPT ![e] = "done"]
    /\ rec' = [rec EXCEPT ![e] =
                 [status |-> IF eres[e].success THEN "success" ELSE "error",
                  result |-> eres[e]]]
    /\ rlog' = [rlog EXCEPT ![e] =
                 IF eres[e].success THEN @ \o <<"success">> ELSE @ \o <<"error", "error">>]
    /\ UNCHANGED <<servers, conn, connVars, transport, closeCalled, discVars, execVars, chat, chatTools, procVars, uiVars>>

\* generateText / the stream ends normally; both wait for the tool
\* executions they started.
ChatFinish ==
    /\ chat.pc = "running"
    /\ \A e \in CallIds : wpc[e] # "awaiting"
    /\ chat' = [chat EXCEPT !.pc = "finished"]
    /\ UNCHANGED <<servers, conn, connVars, transport, closeCalled, discVars, execVars, chatTools, wpc, rec, rlog, procVars, uiVars>>

\* generateText / the stream throws: the catch block marks pending records.
ChatFail ==
    /\ chat.pc = "running"
    /\ chat' = [chat EXCEPT !.pc = "failed"]
    /\ rec' = [e \in CallIds |->
                 IF rec[e].status = "pending"
                 THEN [status |-> "error", result |-> ExecFail("chat error")]
                 ELSE rec[e]]
    /\ rlog' = [e \in CallIds |->
                 IF rec[e].status = "pending" THEN rlog[e] \o <<"error">> ELSE rlog[e]]
    /\ UNCHANGED <<servers, conn, connVars, transport, closeCalled, discVars, execVars, chatTools, wpc, procVars, uiVars>>

\* ------------------------------------------- chat:send, Python backend path
UserMessage(r) == [role |-> "user", of |-> r]
AssistantMessage(r) == [role |-> "assistant", of |-> r]

\* What the await of the backend ends with: an answer that is plain text,
\* an answer with tool calls, or a failure (fetch rejects, the status is
\* not ok, or the answer holds no message).
BackendAnswers == {"text", "tool_calls", "failure"}

\* Array.prototype.pop
Pop(h) == IF h = <<>> THEN <<>> ELSE SubSeq(h, 1, Len(h) - 1)

\* chat:send with no API key set: the handler pushes the user message and
\* awaits the fetch to the backend.
SendStart(r) ==
    /\ spc[r] = "none"
    /\ \A q \in SendIds : q < r => spc[q] # "none"
    /\ history' = Append(history, UserMessage(r))
    /\ spc' = [spc EXCEPT ![r] = "fetching"]
    /\ UNCHANGED <<servers, conn, connVars, transport, closeCalled, discVars, execVars,
                   chatVars, platform, spawned, uiVars>>

\* The catch block of chat:send: pops the last entry of a history that is
\* not empty, and rethrows.
SendCatch(r) ==
    /\ history' = Pop(history)
    /\ spc' = [spc EXCEPT ![r] = "threw"]
    /\ UNCHANGED <<servers, conn, connVars, transport, closeCalled, discVars, execVars,
                   chatVars, platform, spawned, uiVars>>

\* The backend has answered request r (or the fetch failed).  Plain text:
\* the assistant message is pushed and the handler returns.  Tool calls:
\* the handler parses the arguments and awaits executeTool.
BackendResponds(r, answer) ==
    /\ spc[r] = "fetching"
    /\ CASE answer = "failure" -> SendCatch(r)
         [] answer = "text" ->
               /\ history' = Append(history, AssistantMessage(r))
               /\ spc' = [spc EXCEPT ![r] = "returned"]
               /\ UNCHANGED <<servers, conn, connVars, transport, closeCalled, discVars,
                              execVars, chatVars, platform, spawned, uiVars>>
         [] answer = "tool_calls" ->
               /\ spc' = [spc EXCEPT ![r] = "tools"]
               /\ UNCHANGED <<servers, conn, connVars, transport, closeCalled, discVars,
                              execVars, chatVars, platform, spawned, uiVars, history>>

\* The tool loop of request r is through: the assistant message with its
\* tool calls is pushed and the handler returns.
ToolLoopEnds(r) ==
    /\ spc[r] = "tools"
    /\ history' = Append(history, AssistantMessage(r))
    /\ spc' = [spc EXCEPT ![r] = "returned"]
    /\ UNCHANGED <<servers, conn, connVars, transport, closeCalled, discVars, execVars,
                   chatVars, platform, spawned, uiVars>>

\* JSON.parse throws on the arguments text of a later tool call of request r.
ToolLoopThrows(r) ==
    /\ spc[r] = "tools"
    /\ SendCatch(r)

\* ------------------------------------------------- renderer: useMCP, modal
\* Texts typed into the server path field of the modal.
ModalInputs == {"a.py", " a.py ", "missing.py", "c.txt", "D.PY", ""}

\* String.prototype.trim
Trim(x) == IF x = " a.py " THEN "a.py" ELSE x

\* trimmed.endsWith('.py') || trimmed.endsWith('.js'): the letters as typed.
EndsWithScriptExt(x) == x \in {"a.py", "missing.py", "b.js"}

EmptyPathMsg == "Please enter a server script path"
NotScriptMsg == "Server script must be a .py or .js file"

\* The modal's own validatePath: the localError it sets, null when it accepts.
modalValidatePath(x) ==
    IF Trim(x) = "" THEN EmptyPathMsg
    ELSE IF ~EndsWithScriptExt(Trim(x)) THEN NotScriptMsg
    ELSE NullString

\* handleConnect with the text x in the field.  When the modal accepts it:
\* useMCP.connect sets isConnecting, clears error and invokes mcp:connect,
\* whose handler calls mcpService.connect with the trimmed path.
ModalConnect(x) ==
    /\ hook.pc = "idle"
    /\ IF modalValidatePath(x) # NullString
       THEN /\ modal' = [serverPath |-> x, localError |-> modalValidatePath(x)]
            /\ UNCHANGED <<servers, conn, connVars, transport, closeCalled, discVars,
                           execVars, chatVars, procVars, hook>>
       ELSE /\ modal' = [serverPath |-> x, localError |-> NullString]
            /\ hook' = [hook EXCEPT !.pc = "invoking", !.id = nconn + 1,
                                    !.isConnecting = TRUE, !.error = NullString]
            /\ BeginConnect(Trim(x))

\* The mcp:connect handler returns: {success: true, server} or
\* {success: false, error}; it catches whatever connect throws, so the
\* invoke never rejects.  useMCP.connect drops the value and goes on to
\* refreshServers, which invokes mcp:listServers.
HookConnectResolves ==
    /\ hook.pc = "invoking"
    /\ cpc[hook.id] = "done"
    /\ hook' = [hook EXCEPT !.pc = "refreshing"]
    /\ UNCHANGED <<servers, conn, connVars, transport, closeCalled, discVars, execVars,
                   chatVars, procVars, modal>>

\* refreshServers stores what listServers and listTools returned, the
\* finally block clears isConnecting, connect returns and handleConnect
\* empties the path field.
HookRefreshed ==
    /\ hook.pc = "refreshing"
    /\ hook' = [hook EXCEPT !.pc = "idle", !.isConnecting = FALSE,
                            !.connectedServers = getConnectedServers,
                            !.tools = getAllTools]
    /\ modal' = [serverPath |-> "", localError |-> NullString]
    /\ UNCHANGED <<servers, conn, connVars, transport, closeCalled, discVars, execVars,
                   chatVars, procVars>>

\* ------------------------------------------------------------ environment
\* The server process exits, or its pipe breaks, with no close() requested.
\* MCPService installs no onclose/onerror handler: nothing of its state moves.
TransportTerminates(id) ==
    /\ transport[id] = "live"
    /\ conn[id].status = "connected"
    /\ transport' = [transport EXCEPT ![id] = "dead"]
    /\ UNCHANGED <<servers, conn, connVars, closeCalled, discVars, execVars, chatVars, procVars, uiVars>>

\* MCPService as its IPC callers drive it.  A stale timer firing moves no
\* variable but the timer's own, so this relation leaves those steps out;
\* NextTimers has them.
Next ==
    \/ \E p \in Paths : ConnectInvalid(p)
    \/ \E p \in Paths : ConnectStart(p)
    \/ \E id \in ConnIds : HandshakeOk(id)
    \/ \E id \in ConnIds, msg \in HandshakeErrors : HandshakeFail(id, msg)
    \/ \E id \in ConnIds : ConnTimerFire(id)
    \/ \E id \in ConnIds : ListToolsOk(id)
    \/ \E id \in ConnIds : ListToolsFail(id)
    \/ \E id \in ConnIds : ConnectCleanup(id)
    \/ \E id \in ConnIds : ConnectCleanupCloseThrows(id)
    \/ \E id \in ConnIds : DisconnectNotFound(id)
    \/ \E id \in ConnIds : DisconnectStart(id)
    \/ \E d \in DiscIds : DisconnectClosed(d)
    \/ \E d \in DiscIds : DisconnectCloseThrows(d)
    \/ \E id \in ConnIds : TransportTerminates(id)
    \/ \E n \in ToolNames : ExecuteTool(n, EmptyArgs)
    \/ \E r \in CallIds : \E resp \in Responses(r) : RequestSettles(r, resp)
    \/ \E e \in CallIds : ExecTimerFire(e)

Spec == Init /\ [][Next]_vars

\* connect and executeTool with every firing of their timers, stale ones
\* included.
NextTimers ==
    \/ \E p \in Paths : ConnectStart(p)
    \/ \E id \in ConnIds : HandshakeOk(id)
    \/ \E id \in ConnIds : ConnTimerFire(id)
    \/ \E id \in ConnIds : ConnTimerStale(id)
    \/ \E id \in ConnIds : ListToolsOk(id)
    \/ \E id \in ConnIds : ConnectCleanup(id)
    \/ \E id \in ConnIds : ConnectCleanupCloseThrows(id)
    \/ \E n \in ToolNames : ExecuteTool(n, EmptyArgs)
    \/ \E r \in CallIds : \E resp \in Responses(r) : RequestSettles(r, resp)
    \/ \E e \in CallIds : ExecTimerFire(e)
    \/ \E e \in CallIds : ExecTimerStale(e)

SpecTimers == Init /\ [][NextTimers]_vars

\* connect() alone, with every path and on every platform.
NextLaunch ==
    \/ \E p \in LaunchPaths : ConnectInvalid(p)
    \/ \E p \in LaunchPaths : ConnectStart(p)
    \/ \E id \in ConnIds : HandshakeOk(id)
    \/ \E id \in ConnIds, msg \in HandshakeErrors : HandshakeFail(id, msg)
    \/ \E id \in ConnIds : ConnTimerFire(id)
    \/ \E id \in ConnIds : ListToolsOk(id)
    \/ \E id \in ConnIds : ListToolsFail(id)
    \/ \E id \in ConnIds : ConnectCleanup(id)
    \/ \E id \in ConnIds : ConnectCleanupCloseThrows(id)

SpecLaunch == InitLaunch /\ [][NextLaunch]_vars

\* chat:send requests on the Python backend path, several in flight.
NextSend ==
    \/ \E r \in SendIds : SendStart(r)
    \/ \E r \in SendIds, answer \in BackendAnswers : BackendResponds(r, answer)
    \/ \E r \in SendIds : ToolLoopEnds(r)
    \/ \E r \in SendIds : ToolLoopThrows(r)

SpecSend == Init /\ [][NextSend]_vars

\* The Tool Connection Modal and useMCP driving connect().
NextUi ==
    \/ \E x \in ModalInputs : ModalConnect(x)
    \/ \E id \in ConnIds : HandshakeOk(id)
    \/ \E id \in ConnIds, msg \in HandshakeErrors : HandshakeFail(id, msg)
    \/ \E id \in ConnIds : ConnTimerFire(id)
    \/ \E id \in ConnIds : ListToolsOk(id)
    \/ \E id \in ConnIds : ListToolsFail(id)
    \/ \E id \in ConnIds : ConnectCleanup(id)
    \/ \E id \in ConnIds : ConnectCleanupCloseThrows(id)
    \/ HookConnectResolves
    \/ HookRefreshed

SpecUi == Init /\ [][NextUi]_vars

\* executeTool('echo', args) with the arguments objects its callers hand it:
\* any value the IPC channel carries, and what the chat:send tool loop parses
\* from JSON.  What the server answers plays no part here: it stays silent.
NextArgs ==
    \/ \E p \in Paths : ConnectStart(p)
    \/ \E id \in ConnIds : HandshakeOk(id)
    \/ \E id \in ConnIds : ListToolsOk(id)
    \/ \E a \in JsonArgs \cup NonJsonArgs : ExecuteTool("echo", a)
    \/ \E text \in BackendTexts : BackendToolCall("echo", text)
    \/ \E e \in CallIds : ExecTimerFire(e)

SpecArgs == Init /\ [][NextArgs]_vars

\* AIService on top of MCPService: one chat()/chatStream() invocation whose
\* model calls tools.
NextChat ==
    \/ \E p \in Paths : ConnectStart(p)
    \/ \E id \in ConnIds : HandshakeOk(id)
    \/ \E id \in ConnIds : ListToolsOk(id)
    \/ \E id \in ConnIds : DisconnectStart(id)
    \/ \E d \in DiscIds : DisconnectClosed(d)
    \/ \E id \in ConnIds : TransportTerminates(id)
    \/ \E r \in CallIds : \E resp \in Responses(r) : RequestSettles(r, resp)
    \/ \E e \in CallIds : ExecTimerFire(e)
    \/ \E m \in {"chat", "stream"} : ChatStart(m)
    \/ \E n \in ToolNames : ToolExecute(n)
    \/ \E e \in CallIds : ToolSettle(e)
    \/ ChatFinish
    \/ ChatFail

SpecChat == Init /\ [][NextChat]_vars

\* The event loop runs every timer that is due and every continuation that
\* is ready; nothing obliges a server to answer.
SpecChatLive ==
    /\ Init /\ [][NextChat]_vars
    /\ \A e \in CallIds : WF_vars(ExecTimerFire(e)) /\ WF_vars(ToolSettle(e))

\* ================================================================ claims
Range(f) == { f[i] : i \in 1..Len(f) }

ConnectedIds == { id \in ConnIds : InTable(id) /\ conn[id].status = "connected" }

ToolsOfServer(id) == { t \in Range(getAllTools) : t.serverId = id }

\* The connect attempt id has put its entry into the table at some time.
Inserted(id) == conn[id].status # "none"

\* Invocation e is begun in this step.
Begins(e) == epc[e] = "none" /\ epc'[e] # "none"

\* Invocation e returns the execution-timeout error in this step.
TimesOut(e) == epc[e] = "awaiting" /\ epc'[e] = "done" /\ eres'[e] = ExecFail(ExecTimeoutMsg)

\* C1: in every reachable state getAllTools() is exactly the union of the
\* tools arrays of the entries whose status is 'connected': it holds every
\* tool the server of a connected entry exposes, each once, and no tool of
\* an entry that is connecting, failed or removed.
RegistryConsistent ==
    /\ Range(getAllTools) = UNION { Range(conn[id].tools) : id \in ConnectedIds }
    /\ Len(getAllTools) = Cardinality(Range(getAllTools))
    /\ \A id \in ConnectedIds :
          ToolsOfServer(id) =
             { [name |-> n, serverId |-> id] : n \in Range(Catalogue(conn[id].path)) }
    /\ \A id \in ConnIds \ ConnectedIds : ToolsOfServer(id) = {}

\* One server is connected and exposes tools while another entry sits in the
\* table connecting or failed, and executeTool has been called.
RegistryWitness ==
    \E a \in ConnectedIds, b \in ConnIds :
        /\ InTable(b)
        /\ conn[b].status \in {"connecting", "error"}
        /\ Len(getAllTools) > 0
        /\ ncall > 0

\* C2: once the transport of a connected server has terminated with no
\* disconnect() called for it, the server is gone from the live table and
\* from getConnectedServers(), and getAllTools() has none of its tools.
UnexpectedDisconnectHandled ==
    \A id \in ConnIds :
        (/\ transport[id] = "dead"
         /\ cres[id].success
         /\ \A d \in DiscIds : dpc[d] = "none" \/ dsid[d] # id)
        => /\ ~InTable(id)
           /\ id \notin Range(getConnectedServers)
           /\ ToolsOfServer(id) = {}

\* C3: a disconnect(id) that found the entry returns {success: true}, and
\* from its return on the table has no entry for id and getAllTools() no
\* tool of id, also when client.close() threw.
DisconnectHonoured ==
    \A d \in DiscIds :
        dpc[d] \in {"ret_closed", "ret_forced"}
        => /\ dres[d] = Ok
           /\ ~InTable(dsid[d])
           /\ ToolsOfServer(dsid[d]) = {}

\* A disconnect whose close() threw has returned.
DisconnectForcedWitness ==
    \E d \in DiscIds : dpc[d] = "ret_forced" /\ dres[d] = Ok /\ ~InTable(dsid[d])

\* C4: a connect that fails after inserting its entry calls close() on the client,
\* removes the entry and returns the error that was raised; while it is in
\* progress, while it cleans up and after it has failed, its server is not
\* in getConnectedServers() and none of its tools is in getAllTools().
ConnectFailureClean ==
    \A id \in ConnIds :
        /\ (Inserted(id) /\ (cpc[id] # "done" \/ ~cres[id].success))
           => /\ id \notin Range(getConnectedServers)
              /\ ToolsOfServer(id) = {}
              /\ conn[id].tools = <<>>
        /\ (Inserted(id) /\ cpc[id] = "done" /\ ~cres[id].success)
           => /\ ~InTable(id)
              /\ id \in closeCalled
              /\ conn[id].status = "error"
              /\ cres[id] = Fail(conn[id].error)
              /\ cres[id].error \in HandshakeErrors \cup {ConnTimeoutMsg, ListToolsError}
              /\ (ctimer[id] = "fired" <=> cres[id].error = ConnTimeoutMsg)

\* A connect failed in listTools, another in the handshake timeout; both returned.
ConnectFailureWitness ==
    \E a, b \in ConnIds :
        /\ cpc[a] = "done" /\ cres[a] = Fail(ListToolsError)
        /\ cpc[b] = "done" /\ cres[b] = Fail(ConnTimeoutMsg)

\* C5 as stated: once the 30 s timer of a connect attempt has expired, the
\* attempt is no longer in progress, neither in its handshake nor in tool
\* discovery: it completed before, or it was abandoned.
ConnTimeoutCoversDiscovery ==
    \A id \in ConnIds :
        ctimer[id] = "fired" => cpc[id] \notin {"handshaking", "listing"}

\* C5 amended: once the 30 s timer has expired the attempt is no longer in
\* its handshake; an attempt the timer caught there calls close() on the
\* client, ends with its entry removed and returns the connection-timeout
\* error.  Tool discovery is not under the timer.
ConnTimeoutAbandonsHandshake ==
    \A id \in ConnIds :
        /\ ctimer[id] = "fired" => cpc[id] # "handshaking"
        /\ conn[id].error = ConnTimeoutMsg
           => /\ ctimer[id] = "fired"
              /\ id \in closeCalled
              /\ conn[id].status = "error"
              /\ cpc[id] \in {"closing", "done"}
              /\ cpc[id] = "done" => cres[id] = Fail(ConnTimeoutMsg) /\ ~InTable(id)

\* A connect attempt was caught by its timer and has returned.
ConnTimeoutWitness ==
    \E id \in ConnIds :
        /\ cpc[id] = "done" /\ cres[id] = Fail(ConnTimeoutMsg)
        /\ id \in closeCalled /\ ~InTable(id)

\* C6: an executeTool(n) begun while no entry in 'connected' status has a
\* tool n returns at once the tool-not-found error and sends no callTool;
\* one begun while some has, sends its callTool to an entry that is in the
\* table, 'connected' and has the tool.
NotFoundWithoutCall ==
    [][\A e \in CallIds :
         Begins(e) =>
           IF \E id \in ConnectedIds : HasTool(id, ename'[e])
           THEN /\ etarget'[e] \in ConnectedIds
                /\ HasTool(etarget'[e], ename'[e])
                /\ epc'[e] = "awaiting"
           ELSE /\ epc'[e] = "done"
                /\ eres'[e] = ExecFail(ToolNotFoundMsg(ename'[e]))
                /\ etarget'[e] = 0
                /\ eresp'[e] = NoResp
                /\ etimer'[e] = "none"]_vars

\* executeTool('echo') returned not-found while a server that has only
\* 'search' is connected.
NotFoundWitness ==
    \E e \in CallIds, id \in ConnectedIds :
        /\ epc[e] = "done" /\ etarget[e] = 0
        /\ ename[e] = "echo" /\ ~HasTool(id, "echo")
        /\ eres[e] = ExecFail(ToolNotFoundMsg("echo"))
        /\ nconn = 1 /\ ndisc = 0 /\ transport[id] = "live"

\* C7: an invocation the server answered with a failure, as a JSON-RPC
\* error or as a result flagged isError, has returned {success: false}; for
\* the JSON-RPC error the error string is the server's message.
ServerFailurePropagated ==
    \A e \in CallIds :
        /\ (eresp[e].kind = "error" /\ eres[e].error # ExecTimeoutMsg)
           => eres[e] = ExecFail(eresp[e].msg)
        /\ (eresp[e].kind = "result" /\ eresp[e].isError /\ eres[e].error # ExecTimeoutMsg)
           => ~eres[e].success

\* C8: no executeTool invocation waits forever and no tool-call record
\* stays pending forever, even if the server never answers: again and
\* again every invocation begun has returned and every record is success
\* or error; once chat()/chatStream() has finished or failed no record is
\* pending.
RecordsTerminate ==
    /\ []<>(\A e \in CallIds : epc[e] # "awaiting" /\ rec[e].status # "pending")
    /\ [](chat.pc \in {"finished", "failed"}
            => \A e \in CallIds : rec[e].status # "pending")

\* The server never answered a tool call; its record ended as error with
\* the timeout message and the chat finished.
RecordTimeoutWitness ==
    \E e \in CallIds :
        /\ eresp[e].kind = "none" /\ wpc[e] = "done"
        /\ rec[e] = [status |-> "error", result |-> ExecFail(ExecTimeoutMsg)]
        /\ chat.pc = "finished"

\* C9: an invocation that returned a result returned what the server
\* answered to its own request: every part of it was written for that
\* request and that tool, whatever other requests were outstanding.
CallIsolation ==
    \A e \in CallIds :
        (epc[e] = "done" /\ eres[e].success)
        => /\ eresp[e].kind = "result"
           /\ eres[e] = Outcome(eresp[e])
           /\ \A i \in 1..Len(eres[e].body) :
                 eres[e].body[i].type # "nl"
                 => eres[e].body[i].req = e /\ eres[e].body[i].tool = ename[e]

\* Two invocations on one server: the one issued later has returned its own
\* result while the one issued first is still unanswered.
CallIsolationWitness ==
    \E a, b \in CallIds :
        /\ a < b /\ etarget[a] = etarget[b] /\ etarget[a] # 0
        /\ epc[a] = "awaiting"
        /\ epc[b] = "done" /\ eres[b].success /\ eres[b].body[1].req = b

\* C10: the step in which an invocation times out changes neither the
\* table, nor any connection's status or tools, nor any other invocation;
\* and an invocation that still waits can always still be answered.
TimeoutIndependence ==
    /\ [][\A e \in CallIds :
            TimesOut(e) =>
              /\ servers' = servers /\ conn' = conn /\ transport' = transport
              /\ closeCalled' = closeCalled
              /\ \A o \in CallIds \ {e} :
                    /\ epc'[o] = epc[o] /\ eres'[o] = eres[o]
                    /\ eresp'[o] = eresp[o] /\ etarget'[o] = etarget[o]]_vars
    /\ [](\A o \in CallIds :
            epc[o] = "awaiting" => eresp[o].kind = "none" /\ Responses(o) # {})

\* An invocation has timed out while one issued before it on the same
\* server still waits; the server is connected and can still answer.
TimeoutWitness ==
    \E a, b \in CallIds :
        /\ a < b /\ etarget[a] = etarget[b]
        /\ epc[b] = "done" /\ eres[b] = ExecFail(ExecTimeoutMsg)
        /\ epc[a] = "awaiting"
        /\ etarget[a] \in ConnectedIds /\ transport[etarget[a]] = "live"

\* C11: an executeTool never sends its callTool to a server whose
\* client.close() has already been called, and never returns success from
\* such a server; once a disconnect of that server has returned, the table
\* and getAllTools() hold nothing of it.
NoCallDuringTeardown ==
    /\ [][\A e \in CallIds :
            /\ (Begins(e) /\ etarget'[e] # 0) => etarget'[e] \notin closeCalled
            /\ (epc[e] = "awaiting" /\ epc'[e] = "done" /\ eres'[e].success)
               => etarget[e] \notin closeCalled]_vars
    /\ [](\A d \in DiscIds :
            dpc[d] \in {"ret_closed", "ret_forced"}
            => ~InTable(dsid[d]) /\ ToolsOfServer(dsid[d]) = {})

\* C12: an answer that arrives for a request whose invocation has already
\* returned the timeout error changes no invocation's result, that one's
\* included, and is kept as delivered to no one.
LateResponseDiscarded ==
    /\ [][\A r \in CallIds :
            (epc[r] = "done" /\ eresp[r].kind = "none" /\ eresp'[r].kind # "none")
            => /\ eres' = eres
               /\ epc' = epc
               /\ eresp'[r] = LateResp]_vars
    /\ [](\A e \in CallIds :
            eresp[e].kind = "late"
            => eres[e] = ExecFail(ExecTimeoutMsg) /\ etimer[e] = "fired")

\* The answer to a timed-out request arrived late; an invocation issued
\* after it on the same server has returned its own result.
LateResponseWitness ==
    \E a, b \in CallIds :
        /\ a < b /\ etarget[a] = etarget[b]
        /\ eresp[a] = LateResp /\ eres[a] = ExecFail(ExecTimeoutMsg)
        /\ epc[b] = "done" /\ eres[b].success /\ eres[b].body[1].req = b

\* Disconnect invocation d takes a step.
DisconnectSteps(d) == dpc'[d] # dpc[d]

\* Disconnect invocation a is the first one made for its server id.
FirstForId(a) == \A c \in DiscIds : c < a => dsid[c] # dsid[a]

\* C13: of the first disconnect(id) call for an id and a later one for the
\* same id, in sequence or overlapping, the first returns {success: true}
\* and the later one returns {success: true} or 'Server not found'; once
\* both have returned the table has no entry for id; and no step of a
\* disconnect changes the entry, the tools or the table position of any
\* other server.
DisconnectIdempotent ==
    /\ [](\A a, b \in DiscIds :
            (a < b /\ dpc[b] # "none" /\ dsid[a] = dsid[b] /\ FirstForId(a))
            => /\ dpc[a] \in {"closing", "ret_closed", "ret_forced"}
               /\ dpc[a] # "closing" => dres[a] = Ok
               /\ dpc[b] # "closing" => dres[b] \in {Ok, Fail(ServerNotFoundMsg)}
               /\ (dpc[a] # "closing" /\ dpc[b] # "closing") => ~InTable(dsid[a]))
    /\ [][\A d \in DiscIds :
            DisconnectSteps(d)
            => /\ Remove(servers', dsid'[d]) = Remove(servers, dsid'[d])
               /\ \A o \in ConnIds \ {dsid'[d]} : conn'[o] = conn[o]]_vars

\* Two overlapping disconnects of one server have both returned success,
\* and another server is still connected.
DisconnectTwiceWitness ==
    \E a, b \in DiscIds, o \in ConnectedIds :
        /\ a < b /\ dsid[a] = dsid[b] /\ dsid[a] # o
        /\ dpc[a] = "ret_closed" /\ dpc[b] \in {"ret_closed", "ret_forced"}
        /\ dres[a] = Ok /\ dres[b] = Ok

AlwaysStructured ==
    /\ \A id \in ConnIds : cpc[id] # "threw"
    /\ \A d \in DiscIds : dpc[d] # "threw"
    /\ \A e \in CallIds :
          /\ epc[e] # "threw"
          /\ epc[e] = "done" => (eres[e].success \/ eres[e].error # "none")

\* The connect invocation id returned without having touched anything.
RejectedUntouched(id) ==
    /\ cpc[id] = "done"
    /\ spawned[id] = NoSpawn
    /\ transport[id] = "none"
    /\ conn[id] = NoConn
    /\ ~InTable(id)

\* C16: a connect whose path has an extension other than .py/.js returned
\* the invalid-type error, one whose .py/.js path is not on disk returned
\* the not-found error naming the path; neither constructed a transport or
\* inserted an entry, and the step in which it returned changed neither the
\* table, nor any entry, nor the tool set.
ValidationRejectsFirst ==
    /\ [](\A id \in ConnIds :
            cpc[id] # "none"
            => /\ Ext(cpath[id]) \notin {".py", ".js"}
                  => cres[id] = Fail(InvalidTypeMsg) /\ RejectedUntouched(id)
               /\ (Ext(cpath[id]) \in {".py", ".js"} /\ ~ExistsOnDisk(cpath[id]))
                  => cres[id] = Fail(NotFoundMsg(cpath[id])) /\ RejectedUntouched(id))
    /\ [][\A id \in ConnIds :
            (cpc[id] = "none" /\ cpc'[id] = "done")
            => /\ servers' = servers /\ conn' = conn
               /\ transport' = transport /\ spawned' = spawned]_vars

\* A .py path that is not on disk was rejected while a server connected
\* before it was in the table with its tools.
ValidationWitness ==
    \E a \in ConnIds, o \in ConnectedIds :
        /\ o < a
        /\ cpath[a] = "missing.py"
        /\ cres[a] = Fail(NotFoundMsg("missing.py"))
        /\ Len(getAllTools) > 0

\* C17: when mcp:connect resolves {success: false, error}, useMCP.connect
\* has, by the time it returns, set its error state to that message, and
\* the modal has not treated the attempt as a success (it keeps the typed
\* path instead of emptying the field).
FailedConnectShown ==
    (/\ hook.pc = "idle"
     /\ hook.id # 0
     /\ ~cres[hook.id].success)
    => /\ hook.error = cres[hook.id].error
       /\ modal.serverPath # ""

\* The connect invocations that launched a server process.
Launched == {id \in ConnIds : spawned[id] # NoSpawn}

\* The Python command of the platform the application runs on.
PythonCommand == IF platform = "win32" THEN "python" ELSE "python3"

\* C18: the launch command is a function of the script's extension alone:
\* a .py script is launched with the Python command (python3, python on
\* Windows), a .js script with node, two launches of scripts of the same
\* extension use the same command, and the script path is the only
\* argument of the launch.
CommandByExtension ==
    /\ \A id \in Launched :
          /\ spawned[id].args = <<cpath[id]>>
          /\ Ext(cpath[id]) = ".py" => spawned[id].command = PythonCommand
          /\ Ext(cpath[id]) = ".js" => spawned[id].command = "node"
    /\ \A i, j \in Launched :
          Ext(cpath[i]) = Ext(cpath[j]) => spawned[i].command = spawned[j].command

\* On Windows, a script named D.PY and a script named b.js have both been
\* launched, the first with python and the second with node.
CommandByExtensionWitness ==
    /\ platform = "win32"
    /\ \E i, j \in Launched :
          /\ cpath[i] = "D.PY" /\ spawned[i] = [command |-> "python", args |-> <<"D.PY">>]
          /\ cpath[j] = "b.js" /\ spawned[j] = [command |-> "node", args |-> <<"b.js">>]

RECURSIVE JsonRepresentable(_)
\* v is built from strings, numbers, booleans, null, arrays and objects only.
JsonRepresentable(v) ==
    CASE v.t \in {"null", "true", "num", "str"} -> TRUE
      [] v.t = "arr" -> \A i \in 1..Len(v.v) : JsonRepresentable(v.v[i])
      [] v.t = "obj" -> \A i \in 1..Len(v.v) : JsonRepresentable(v.v[i].val)
      [] OTHER -> FALSE

RECURSIVE PositiveZeros(_)
\* v with every negative zero in it replaced by 0.
PositiveZeros(v) ==
    CASE v = Num("-0") -> Num("0")
      [] v.t = "arr" -> Arr([i \in 1..Len(v.v) |-> PositiveZeros(v.v[i])])
      [] v.t = "obj" ->
            Obj([i \in 1..Len(v.v) |-> Member(v.v[i].key, PositiveZeros(v.v[i].val))])
      [] OTHER -> v

\* The invocations whose callTool was issued with JSON-representable
\* arguments supplied by the caller.
JsonCalls == {e \in CallIds : eargs[e] # NoArgs /\ JsonRepresentable(esupplied[e])}

RecordWrittenOnce ==
    \A e \in CallIds :
        rlog[e] \in {<<>>, <<"pending">>, <<"pending", "success">>, <<"pending", "error">>}

\* C21: every connection that has been removed from the live table holds a
\* terminal status, 'error' or 'disconnected': none is left 'connected' or
\* 'connecting'.
RemovedIsTerminal ==
    \A id \in ConnIds :
        (Inserted(id) /\ ~InTable(id)) => conn[id].status \in {"error", "disconnected"}

\* connect attempt id issues client.listTools() in this step.
IssuesListTools(id) == cpc[id] # "listing" /\ cpc'[id] = "listing"

\* Invocation e issues client.callTool() in this step.
IssuesCallTool(e) == eargs[e] = NoArgs /\ eargs'[e] # NoArgs

\* callTool goes only to a server whose entry was 'connected' when the owner
\* was resolved, its connect() having returned success after handshake and
\* tool discovery.
CallToolAfterConnected ==
    \A e \in CallIds :
        IssuesCallTool(e)
        => /\ etarget'[e] \in ConnIds
           /\ InTable(etarget'[e])
           /\ conn[etarget'[e]].status = "connected"
           /\ cpc[etarget'[e]] = "done" /\ cres[etarget'[e]] = Ok

\* C22: listTools is issued to a server only by the step in which its
\* handshake completes (the attempt was handshaking, its transport is up
\* and its timeout has not fired), while the entry is still 'connecting';
\* callTool is issued only to a server that was 'connected' when the owner
\* was resolved, never to one still 'connecting'.
RequestsAfterHandshake ==
    [][/\ \A id \in ConnIds :
            IssuesListTools(id)
            => /\ cpc[id] = "handshaking"
               /\ transport[id] = "live"
               /\ ctimer'[id] = "armed"
               /\ conn[id].status = "connecting"
       /\ CallToolAfterConnected]_vars

\* One server has been sent callTool after it was connected while another
\* attempt, its handshake done, has listTools outstanding.
RequestsAfterHandshakeWitness ==
    \E e \in CallIds, id \in ConnIds :
        /\ eargs[e] # NoArgs /\ etarget[e] # id
        /\ conn[etarget[e]].status = "connected"
        /\ cpc[id] = "listing" /\ conn[id].status = "connecting"

\* C22 as stated: listTools only after the handshake, callTool only to a
\* 'connected' server, and no request at all, listTools included, is sent
\* to a server whose entry is in 'connecting' status.
NoRequestWhileConnecting ==
    [][/\ \A id \in ConnIds :
            IssuesListTools(id)
            => /\ cpc[id] = "handshaking"
               /\ conn[id].status # "connecting"
       /\ CallToolAfterConnected]_vars

\* Connect attempt id takes a step: it starts, or its handler goes on.
ConnectSteps(id) == cpc'[id] # cpc[id]

\* C23: connect attempts run side by side: each valid one gets an id and an
\* entry of its own (no id is in the table twice), and no step of one
\* attempt, whether it succeeds, fails or times out, changes the entry, the
\* tools or the table position of another attempt's server.  That a second
\* attempt reaches 'connected' while the first is still handshaking is the
\* state ConcurrentConnectWitness describes.
ConnectIndependence ==
    /\ [](\A i, j \in 1..Len(servers) : i # j => servers[i] # servers[j])
    /\ [][\A id \in ConnIds :
            ConnectSteps(id)
            => /\ Remove(servers', id) = Remove(servers, id)
               /\ \A o \in ConnIds \ {id} : conn'[o] = conn[o]]_vars

\* The first attempt is still handshaking, its entry 'connecting', while a
\* later attempt with another path is 'connected' with its tools.
ConcurrentConnectWitness ==
    \E a, b \in ConnIds :
        /\ a < b /\ cpath[a] # cpath[b]
        /\ InTable(a) /\ cpc[a] = "handshaking" /\ conn[a].status = "connecting"
        /\ InTable(b) /\ cpc[b] = "done" /\ conn[b].status = "connected"
        /\ conn[b].tools # <<>>

OwnerStable ==
    [][\A a, b \in CallIds :
          (/\ Begins(b)
           /\ epc[a] # "none" /\ ename[a] = ename'[b]
           /\ etarget[a] \in ConnIds
           /\ InTable(etarget[a]) /\ conn[etarget[a]].status = "connected")
          => etarget'[b] = etarget[a]]_vars

\* C26: when the model's call of a tool name is routed by executeTool while
\* more than one connected server exposes that name, the entry registered
\* with the model under the name was built from the tool of the server the
\* call is routed to.
DefinitionFromOwner ==
    \A e \in CallIds :
        (wpc[e] # "none" /\ Len(esnap[e]) > 1) => chatTools[ename[e]] = etarget[e]

\* C27: in chatStream, what is sent about a tool call is one tool-call
\* notification and, after it, at most one tool-result notification: no
\* tool-result comes without a tool-call before it and none comes twice.
OneResultPerCall ==
    \A e \in CallIds :
        Notifications(e) \in {<<>>, <<"tool-call">>, <<"tool-call", "tool-result">>}

RECURSIVE Without(_, _)
\* The sequence h with its entries equal to m left out.
Without(h, m) ==
    IF h = <<>> THEN <<>>
    ELSE IF Head(h) = m THEN Without(Tail(h), m)
         ELSE <<Head(h)>> \o Without(Tail(h), m)

\* C28: when a chat:send request on the Python backend path fails, the
\* history loses exactly the user message that request appended, whatever
\* other requests are in flight; and a request that has succeeded has its
\* user message in the history, directly followed by its assistant message.
FailedSendRemovesOwnMessage ==
    /\ [][\A r \in SendIds :
            (spc[r] # "threw" /\ spc'[r] = "threw")
            => history' = Without(history, UserMessage(r))]_vars
    /\ [](\A r \in SendIds :
            spc[r] = "returned"
            => \E i \in 1..(Len(history) - 1) :
                  history[i] = UserMessage(r) /\ history[i + 1] = AssistantMessage(r))

\* The connection-timeout timer of attempt id fires in this step.
ConnTimerFires(id) == ctimer[id] = "armed" /\ ctimer'[id] = "fired"

\* The execution-timeout timer of invocation e fires in this step.
ExecTimerFires(e) == etimer[e] = "armed" /\ etimer'[e] = "fired"

\* C29: a connection-timeout timer that fires after its connect() returned
\* success changes neither the table nor any entry, status or tool list nor
\* what connect returned; an execution-timeout timer that fires after its
\* invocation returned changes neither that result, nor the table or any
\* server's status, nor any other invocation.
StaleTimersChangeNothing ==
    [][/\ \A id \in ConnIds :
            (ConnTimerFires(id) /\ cpc[id] = "done" /\ cres[id] = Ok)
            => /\ servers' = servers /\ conn' = conn /\ transport' = transport
               /\ cpc' = cpc /\ cres' = cres
               /\ getAllTools' = getAllTools
       /\ \A e \in CallIds :
            (ExecTimerFires(e) /\ epc[e] = "done")
            => /\ epc' = epc /\ eres' = eres /\ eresp' = eresp
               /\ servers' = servers /\ conn' = conn /\ transport' = transport]_vars

\* The timer of a connect that returned success has fired and the server is
\* still connected with its tools; the timer of a call that returned
\* success has fired while another call still waits for its answer.
StaleTimersWitness ==
    \E id \in ConnectedIds, e, o \in CallIds :
        /\ ctimer[id] = "fired" /\ cres[id] = Ok /\ conn[id].tools # <<>>
        /\ etimer[e] = "fired" /\ epc[e] = "done" /\ eres[e].success
        /\ epc[o] = "awaiting" /\ etarget[o] = id

\* C30: of the connected servers exposing a tool name, executeTool routes
\* the call to the one whose connect() was called earliest (the first of
\* them in the table's insertion order), also when a server whose connect()
\* was called later reached 'connected' before it.
RoutesToEarliestConnect ==
    [][\A e \in CallIds :
          Begins(e)
          => LET owners == {id \in ConnIds : /\ InTable(id)
                                             /\ conn[id].status = "connected"
                                             /\ HasTool(id, ename'[e])} IN
             IF owners = {} THEN etarget'[e] = 0
             ELSE /\ etarget'[e] \in owners
                  /\ \A o \in owners : etarget'[e] <= o]_vars

\* A call for 'search' was routed to server 1 although server 2, whose
\* connect() was called later, had connected first and had served 'search'
\* before.
RoutesToEarliestWitness ==
    \E a, b \in CallIds :
        /\ a < b /\ ename[a] = "search" /\ ename[b] = "search"
        /\ etarget[a] = 2 /\ etarget[b] = 1
        /\ esnap[b] = <<1, 2>>

====
